---------------------------- MODULE Spec2Model ----------------------------
(***************************************************************************)
(* Model of src/src/components/utils/androidPrint.js: the ESC/POS document *)
(* builders (Bill, Food KOT, Coffee KOT) and the Android print-bridge      *)
(* callers (androidPrintBill, androidPrintFoodKOT, androidPrintCoffeeKOT,  *)
(* androidPrintAll).                                                       *)
(*                                                                         *)
(* JavaScript values are tagged records (field t is the typeof-like tag).  *)
(* Numbers are non-negative fixed-point values counted in hundredths       *)
(* (n = 4500 stands for 45.00); NaN has its own tag.  A document is the    *)
(* sequence of the pieces the builder appends with `r += ...`, one piece   *)
(* per statement, so that a control sequence the builder emits is never    *)
(* confused with text that comes from the order.                           *)
(***************************************************************************)
EXTENDS Integers, Sequences, FiniteSets

\* ------------------------------------------------------------------ bounds
MaxItems == 2
MaxCalls == 1
MaxTicks == 2
MaxProbes == 1

\* ------------------------------------------------------------ JS values
Undefined == [t |-> "undefined"]
Null == [t |-> "null"]
NaN == [t |-> "NaN"]
Str(s) == [t |-> "string", s |-> s]
Num(n) == [t |-> "number", n |-> n]
Arr(a) == [t |-> "array", a |-> a]
\* a customization record; name = Undefined stands for a record without the field
Named(name) == [t |-> "object", name |-> name]

\* ToBoolean
Truthy(v) ==
  CASE v.t = "undefined" -> FALSE
    [] v.t = "null" -> FALSE
    [] v.t = "NaN" -> FALSE
    [] v.t = "string" -> v.s # ""
    [] v.t = "number" -> v.n # 0
    [] OTHER -> TRUE

\* a || b
Or(a, b) == IF Truthy(a) THEN a ELSE b

\* a ?? b
Nullish(a, b) == IF a.t \in {"undefined", "null"} THEN b ELSE a

Digits == "0123456789"
Digit(d) == SubSeq(Digits, d + 1, d + 1)

RECURSIVE NatToStr(_)
NatToStr(n) == IF n < 10 THEN Digit(n) ELSE NatToStr(n \div 10) \o Digit(n % 10)

\* Number.prototype.toString of a value in hundredths: 4500 -> "45", 250 -> "2.5", 125 -> "1.25"
NumToStr(n) ==
  LET whole == NatToStr(n \div 100)
      frac == n % 100
  IN IF frac = 0 THEN whole
     ELSE IF frac % 10 = 0 THEN whole \o "." \o Digit(frac \div 10)
     ELSE whole \o "." \o Digit(frac \div 10) \o Digit(frac % 10)

\* String(v), also what a template literal `${v}` does
String(v) ==
  CASE v.t = "undefined" -> "undefined"
    [] v.t = "null" -> "null"
    [] v.t = "NaN" -> "NaN"
    [] v.t = "string" -> v.s
    [] v.t = "number" -> NumToStr(v.n)
    [] v.t = "array" -> "<array>"
    [] OTHER -> "[object Object]"

IsDigitChar(c) == \E d \in 0..9 : Digit(d) = c
DigitVal(c) == CHOOSE d \in 0..9 : Digit(d) = c

RECURSIVE IsDigits(_)
IsDigits(s) == s = "" \/ (IsDigitChar(Head(s)) /\ IsDigits(Tail(s)))

RECURSIVE StrToNat(_, _)
StrToNat(s, acc) == IF s = "" THEN acc ELSE StrToNat(Tail(s), acc * 10 + DigitVal(Head(s)))

\* ToNumber, for the operands of * and /.  Strings are decimal digit strings
\* (a number) or hold a non-digit (NaN); "" is 0.
ToNumber(v) ==
  CASE v.t = "number" -> v
    [] v.t = "null" -> Num(0)
    [] v.t = "string" -> IF IsDigits(v.s) THEN Num(StrToNat(v.s, 0) * 100) ELSE NaN
    [] OTHER -> NaN

\* a * b
Mul(a, b) ==
  LET x == ToNumber(a)
      y == ToNumber(b)
  IN IF x.t = "NaN" \/ y.t = "NaN" THEN NaN ELSE Num((x.n * y.n) \div 100)

\* a / 2 (the inputs hold an even number of hundredths, so the half is exact)
Half(a) ==
  LET x == ToNumber(a)
  IN IF x.t = "NaN" THEN NaN ELSE Num(x.n \div 2)

\* v.toFixed exists only on numbers: on undefined/null the property read throws,
\* on a string the call throws (not a function)
HasToFixed(v) == v.t \in {"number", "NaN"}

\* v.toFixed(2)
ToFixed2(v) ==
  IF v.t = "NaN" THEN "NaN"
  ELSE NatToStr(v.n \div 100) \o "." \o Digit((v.n % 100) \div 10) \o Digit(v.n % 10)

\* v.toFixed(0): the nearest integer, the larger one on a tie
ToFixed0(v) ==
  IF v.t = "NaN" THEN "NaN" ELSE NatToStr((v.n + 50) \div 100)

RECURSIVE Spaces(_)
\* ' '.repeat(n)
Spaces(n) == IF n <= 0 THEN "" ELSE " " \o Spaces(n - 1)

\* s.slice(from) and s.slice(from, to) with 0-based non-negative indices
Slice(s, from, to) ==
  LET e == IF to > Len(s) THEN Len(s) ELSE to
  IN IF from >= e THEN "" ELSE SubSeq(s, from + 1, e)

\* ------------------------------------------------ ESC/POS command constants
COFFEE_CATEGORY_ID == "6868ca5dc29c8ed4d3c98dd8"

ESC == "<1B>"
GS == "<1D>"

CMD ==
  [ INIT |-> ESC \o "@",
    ALIGN_LEFT |-> ESC \o "a<00>",
    ALIGN_CENTER |-> ESC \o "a<01>",
    ALIGN_RIGHT |-> ESC \o "a<02>",
    BOLD_ON |-> ESC \o "E<01>",
    BOLD_OFF |-> ESC \o "E<00>",
    DOUBLE_HEIGHT |-> ESC \o "!<10>",
    DOUBLE_BOTH |-> ESC \o "!<38>",
    NORMAL_TEXT |-> ESC \o "!<00>",
    CUT |-> GS \o "V<41><00>",
    FEED3 |-> "\n\n\n" ]

RULE == "----------------------------------------\n"

\* ------------------------------------------------------------------ helpers
padEnd(str, len) ==
  LET s == String(str)
  IN IF Len(s) >= len THEN SubSeq(s, 1, len) ELSE s \o Spaces(len - Len(s))

padStart(str, len) ==
  LET s == String(str)
  IN IF Len(s) >= len THEN SubSeq(s, 1, len) ELSE Spaces(len - Len(s)) \o s

twoCol(left, right, totalWidth) ==
  LET l == String(left)
      r == String(right)
      padding == totalWidth - Len(l) - Len(r)
  IN l \o (IF padding > 0 THEN Spaces(padding) ELSE " ") \o r \o "\n"

\* the wall clock is outside the model: one sample of the formatted text
getDateTime == "03/11/2026  04:11 PM"

\* --------------------------------------------------------- builder results
Doc(d) == [kind |-> "doc", doc |-> d]
NoDoc == [kind |-> "null", doc |-> <<>>]
Thrown == [kind |-> "throw", doc |-> <<>>]

\* (orderDetails.items || [])
itemsOrEmpty(orderDetails) == Or(orderDetails.items, Arr(<<>>)).a

\* c.name: a string primitive has no such property
PropName(c) == IF c.t = "object" THEN c.name ELSE Undefined

\* ${c.name || c}
customizationText(c) == String(Or(PropName(c), c))

\* the customization block of one item, with the builder's indent
customizationLines(item, prefix) ==
  LET sc == item.selectedCustomizations
  IN IF Truthy(sc) /\ Len(sc.a) > 0
     THEN [i \in 1..Len(sc.a) |-> prefix \o customizationText(sc.a[i]) \o "\n"]
     ELSE <<>>

\* faulty variant: ?? where the code has ||
billTypeText_Nullish(orderType, orderDetails) ==
  String(Nullish(Nullish(orderType, orderDetails.billType), Str("DINE IN")))

\* ${orderType || orderDetails.billType || 'DINE IN'}
billTypeText(orderType, orderDetails) ==
  String(Or(Or(orderType, orderDetails.billType), Str("DINE IN")))

\* ${orderDetails.kiosk || 'KTR1'}
kioskText(orderDetails) == String(Or(orderDetails.kiosk, Str("KTR1")))

\* ------------------------------------------------------------ Bill builder
billHeader(a) ==
  << CMD.INIT,
     CMD.ALIGN_CENTER,
     CMD.DOUBLE_BOTH,
     "KTR\n",
     CMD.NORMAL_TEXT,
     "Karnataka Tiffin Room\n",
     "Bringing the flavors of Bengaluru\n",
     "-\n",
     "KTR-Versova\n",
     CMD.NORMAL_TEXT,
     "Shop 202, JP Rd, Aram Nagar Pt 2,\n",
     "Versova, Andheri West, Mumbai 400061\n",
     RULE,
     CMD.ALIGN_CENTER,
     CMD.BOLD_ON,
     "KOT: " \o String(a.kot_code) \o "\n",
     CMD.BOLD_OFF,
     RULE,
     CMD.ALIGN_LEFT,
     "BILL NO : " \o String(a.orderId) \o "\n" >>
  \o (IF Truthy(a.KDSInvoiceId)
      THEN << "KDS ID  : " \o String(a.KDSInvoiceId) \o "\n" >>
      ELSE << >>)
  \o << "DATE    : " \o getDateTime \o "\n",
        "TYPE    : " \o billTypeText(a.orderType, a.orderDetails) \o "\n",
        "KIOSK   : " \o kioskText(a.orderDetails) \o "\n",
        RULE,
        CMD.BOLD_ON,
        padEnd(Str("DESCRIPTION"), 22) \o padEnd(Str("QTY"), 4)
          \o padStart(Str("AMOUNT"), 14) \o "\n",
        CMD.BOLD_OFF,
        RULE >>

billItemRow(item) ==
  LET itemTotal == ToFixed2(Mul(item.price, item.quantity))
      nameLine == padEnd(item.itemName, 22)
      qty == padEnd(Str(String(item.quantity)), 4)
      amt == padStart(Str("Rs " \o itemTotal), 14)
  IN nameLine \o qty \o amt \o "\n"

RECURSIVE billItems(_)
billItems(items) ==
  IF items = << >> THEN << >>
  ELSE << billItemRow(Head(items)) >> \o customizationLines(Head(items), "  + ")
       \o billItems(Tail(items))

billTotals(orderDetails) ==
  << RULE,
     twoCol(Str("Subtotal:"), Str("Rs " \o ToFixed2(orderDetails.subtotal)), 40),
     twoCol(Str("CGST 2.5%:"), Str("+" \o ToFixed2(Half(orderDetails.tax))), 40),
     twoCol(Str("SGST 2.5%:"), Str("+" \o ToFixed2(Half(orderDetails.tax))), 40),
     RULE,
     CMD.BOLD_ON,
     CMD.DOUBLE_HEIGHT,
     twoCol(Str("TOTAL:"), Str("Rs " \o ToFixed0(orderDetails.total)), 40),
     CMD.NORMAL_TEXT,
     CMD.BOLD_OFF,
     RULE >>

billFooter ==
  << CMD.ALIGN_CENTER,
     "GST: 27AA0FH7156G1Z0\n",
     "CIN: 6731\n",
     "FSSAI: 21524005001190\n",
     "\n",
     CMD.BOLD_ON,
     "Thank You! Visit Again :)\n",
     CMD.BOLD_OFF,
     CMD.FEED3,
     CMD.CUT >>

\* orderDetails.subtotal.toFixed(2) and orderDetails.total.toFixed(0) throw a
\* TypeError on a value that is not a number; nothing catches it
buildBillEscPos(a) ==
  IF ~HasToFixed(a.orderDetails.subtotal) \/ ~HasToFixed(a.orderDetails.total)
  THEN Thrown
  ELSE Doc(billHeader(a) \o billItems(itemsOrEmpty(a.orderDetails))
           \o billTotals(a.orderDetails) \o billFooter)

\* ------------------------------------------------------- Category classifier
\* faulty variant: === where the food filter has !==
isFoodItem_Equal(item) == item.categoryId = Str(COFFEE_CATEGORY_ID)

isFoodItem(item) == item.categoryId # Str(COFFEE_CATEGORY_ID)

\* faulty variant: the category is compared without regard to letter case
isCoffeeItem_IgnoreCase(item) ==
  item.categoryId \in {Str(COFFEE_CATEGORY_ID), Str("6868CA5DC29C8ED4D3C98DD8")}

isCoffeeItem(item) == item.categoryId = Str(COFFEE_CATEGORY_ID)

\* (orderDetails.items || []).filter(item => item.categoryId !== COFFEE_CATEGORY_ID)
foodItems(orderDetails) == SelectSeq(itemsOrEmpty(orderDetails), isFoodItem)

\* (orderDetails.items || []).filter(item => item.categoryId === COFFEE_CATEGORY_ID)
coffeeItems(orderDetails) == SelectSeq(itemsOrEmpty(orderDetails), isCoffeeItem)

\* ------------------------------------------------------------ KOT builders
kotItemRow(item) == padEnd(item.quantity, 5) \o String(item.itemName) \o "\n"

RECURSIVE kotItems(_)
kotItems(items) ==
  IF items = << >> THEN << >>
  ELSE << kotItemRow(Head(items)) >> \o customizationLines(Head(items), "       + ")
       \o kotItems(Tail(items))

\* the token, ticket code and order info block shared by both tickets
kotInfo(a) ==
  << CMD.ALIGN_CENTER,
     CMD.DOUBLE_BOTH,
     Slice(a.kot_code.s, 4, Len(a.kot_code.s)) \o "\n",
     CMD.NORMAL_TEXT,
     "KOT: " \o String(a.kot_code) \o "\n",
     RULE,
     CMD.ALIGN_LEFT,
     "BILL TYPE : " \o String(Or(a.orderDetails.billType, Str("DINE IN"))) \o "\n",
     "BILL NO   : KTR-" \o Slice(a.orderId.s, 4, 10) \o "\n",
     "DATE/TIME : " \o getDateTime \o "\n",
     "KIOSK     : " \o kioskText(a.orderDetails) \o "\n",
     RULE >>

\* faulty variant: the cut is emitted before the feed
kotTail_CutBeforeFeed(instruction) ==
  << RULE,
     instruction,
     "\n",
     CMD.CUT,
     CMD.FEED3 >>

kotTail(instruction) ==
  << RULE,
     instruction,
     "\n",
     CMD.FEED3,
     CMD.CUT >>

\* kot_code.slice and orderId.slice throw a TypeError on a value that is not a string
buildFoodKOTEscPos(a) ==
  LET items == foodItems(a.orderDetails)
  IN IF Len(items) = 0 THEN NoDoc
     ELSE IF a.kot_code.t # "string" \/ a.orderId.t # "string" THEN Thrown
     ELSE Doc(<< CMD.INIT,
                 CMD.ALIGN_CENTER,
                 CMD.BOLD_ON,
                 "Karnataka Tiffin Room (Versova)\n",
                 CMD.BOLD_OFF,
                 "*** FOOD KOT ***\n",
                 RULE >>
              \o kotInfo(a)
              \o << CMD.BOLD_ON, "QTY  ITEM\n", CMD.BOLD_OFF, RULE >>
              \o kotItems(items)
              \o kotTail("Instruction:\n"))

buildCoffeeKOTEscPos(a) ==
  LET items == coffeeItems(a.orderDetails)
  IN IF Len(items) = 0 THEN NoDoc
     ELSE IF a.kot_code.t # "string" \/ a.orderId.t # "string" THEN Thrown
     ELSE Doc(<< CMD.INIT,
                 CMD.ALIGN_CENTER,
                 CMD.BOLD_ON,
                 "Karnataka Tiffin Room (Versova)\n",
                 CMD.BOLD_OFF,
                 "*** COFFEE KOT ***\n",
                 "--- COFFEE COUNTER ---\n",
                 RULE >>
              \o kotInfo(a)
              \o << CMD.BOLD_ON, "QTY  COFFEE ITEM\n", CMD.BOLD_OFF, RULE >>
              \o kotItems(items)
              \o kotTail("Instruction: COFFEE COUNTER\n"))

\* ------------------------------------------------------------------- inputs
Item(name, price, quantity, categoryId, customizations) ==
  [ itemName |-> name, price |-> price, quantity |-> quantity,
    categoryId |-> categoryId, selectedCustomizations |-> customizations ]

Dosa == Item(Str("Masala Dosa"), Num(4500), Num(200), Str("6868ca5dc29c8ed4d3c98dd7"), Undefined)

FilterCoffee ==
  Item(Str("Filter Coffee"), Num(3000), Num(100), Str(COFFEE_CATEGORY_ID),
       Arr(<< Str("Less Sugar"), Named(Str("Extra Shot")), Named(Str("")) >>))

\* no name, no price, no category, a quantity that is no number
Garbled == Item(Undefined, Undefined, Str("two"), Undefined, Arr(<< >>))

\* a category that differs from the coffee id only in letter case
Tea ==
  Item(Str("Tea"), Str("20"), Num(100), Str("6868CA5DC29C8ED4D3C98DD8"),
       Arr(<< Named(Undefined) >>))

ItemSamples == {Dosa, FilterCoffee, Garbled, Tea}

ItemSeqs == UNION {[1..k -> ItemSamples] : k \in 0..MaxItems}

Totals(subtotal, tax, total) == [subtotal |-> subtotal, tax |-> tax, total |-> total]

TotalsSamples ==
  { Totals(Num(10000), Num(1000), Num(11000)),
    Totals(Undefined, Num(1000), Num(11000)),
    Totals(Num(10000), Undefined, Str("110")),
    Totals(Num(10000), Str("abc"), Num(11050)) }

OrderDetails(items, totals, billType, kiosk) ==
  [ items |-> items, subtotal |-> totals.subtotal, tax |-> totals.tax,
    total |-> totals.total, billType |-> billType, kiosk |-> kiosk ]

Args(orderId, kot_code, KDSInvoiceId, orderDetails, orderType) ==
  [ orderId |-> orderId, kot_code |-> kot_code, KDSInvoiceId |-> KDSInvoiceId,
    orderDetails |-> orderDetails, orderType |-> orderType ]

BuildInputs ==
  { Args(Str("ORD-123456789"), kot, kds, OrderDetails(items, totals, billType, kiosk), orderType) :
      kot \in {Str("KTR-042"), Undefined},
      kds \in {Undefined, Str("INV-9")},
      items \in {Undefined} \cup {Arr(q) : q \in ItemSeqs},
      totals \in TotalsSamples,
      billType \in {Undefined, Str(""), Str("PARCEL")},
      kiosk \in {Undefined, Str(""), Str("KTR2")},
      orderType \in {Undefined, Null, Str(""), Str("TAKE AWAY")} }

\* the orders the dispatch functions are called with: each item mix with
\* well-formed totals, and one order without a subtotal, one without a ticket code
DispatchInputs ==
  { Args(Str("ORD-123456789"), Str("KTR-042"), Undefined,
         OrderDetails(items, Totals(Num(10000), Num(1000), Num(11000)), Undefined, Undefined),
         Undefined) :
      items \in {Undefined, Arr(<< Dosa >>), Arr(<< FilterCoffee >>),
                 Arr(<< Dosa, FilterCoffee >>)} }
  \cup
  { Args(Str("ORD-123456789"), Str("KTR-042"), Undefined,
         OrderDetails(Arr(<< Dosa, FilterCoffee >>),
                      Totals(Undefined, Num(1000), Num(11000)), Undefined, Undefined),
         Undefined),
    Args(Str("ORD-123456789"), Undefined, Undefined,
         OrderDetails(Arr(<< Dosa, FilterCoffee >>),
                      Totals(Num(10000), Num(1000), Num(11000)), Undefined, Undefined),
         Undefined) }

\* the host: no window object at all, a desktop browser, the Android WebView
Envs == {"noWindow", "browser", "webview"}

\* -------------------------------------------------------------------- state
VARIABLES
  env,        \* the host environment
  now,        \* elapsed time in ms
  invs,       \* the calls of the exported functions so far: [fn, a, at, threw]
  timers,     \* the pending setTimeout tasks, in creation order
  scheduled,  \* every setTimeout call made: [inv, kind, delay, at]
  fired,      \* every timer task run: [inv, kind, at, threw]
  bridgeLog,  \* every window.AndroidPrint.printBill invocation
  probes,     \* the values isAndroidBridge() returned
  input,      \* the arguments handed to the builders
  bill, food, coffee,   \* what each builder returned for input
  foodSet, coffeeSet    \* the builders' locals foodItems and coffeeItems

dispatchVars == <<env, now, invs, timers, scheduled, fired, bridgeLog, probes>>
buildVars == <<input, bill, food, coffee, foodSet, coffeeSet>>
vars == <<env, now, invs, timers, scheduled, fired, bridgeLog, probes,
          input, bill, food, coffee, foodSet, coffeeSet>>

Pending == [kind |-> "pending", doc |-> << >>]

\* ------------------------------------------------------------ bridge callers
\* faulty variant: window.AndroidPrint is read without the typeof window guard, a
\* ReferenceError where no window is declared
isAndroidBridge_NoWindowGuard(e) ==
  [threw |-> e = "noWindow", value |-> e = "webview"]

\* typeof window !== 'undefined' && typeof window.AndroidPrint !== 'undefined'
isAndroidBridge(e) ==
  [threw |-> FALSE, value |-> (e # "noWindow" /\ e = "webview")]

\* window.AndroidPrint.printBill(channel, param, payload): reading window or
\* AndroidPrint.printBill throws where the host has none; the bridge itself
\* may throw (thr)
printBill(e, thr, channel, param, payload) ==
  IF e = "webview"
  THEN [ sent |-> << [channel |-> channel, param |-> param, payload |-> payload] >>,
         threw |-> thr, ret |-> FALSE ]
  ELSE [ sent |-> << >>, threw |-> TRUE, ret |-> FALSE ]

androidPrintBill(a, e, thr) ==
  LET escPos == buildBillEscPos(a)
  IN IF escPos.kind = "throw" THEN [sent |-> << >>, threw |-> TRUE, ret |-> FALSE]
     ELSE printBill(e, thr, "USB", "", escPos.doc)

androidPrintFoodKOT(a, e, thr) ==
  LET escPos == buildFoodKOTEscPos(a)
  IN IF escPos.kind = "throw" THEN [sent |-> << >>, threw |-> TRUE, ret |-> FALSE]
     ELSE IF escPos.kind = "null" THEN [sent |-> << >>, threw |-> FALSE, ret |-> FALSE]
     ELSE LET r == printBill(e, thr, "USB", "", escPos.doc)
          IN [r EXCEPT !.ret = ~r.threw]

androidPrintCoffeeKOT(a, e, thr) ==
  LET escPos == buildCoffeeKOTEscPos(a)
  IN IF escPos.kind = "throw" THEN [sent |-> << >>, threw |-> TRUE, ret |-> FALSE]
     ELSE IF escPos.kind = "null" THEN [sent |-> << >>, threw |-> FALSE, ret |-> FALSE]
     ELSE LET r == printBill(e, thr, "USB", "", escPos.doc)
          IN [r EXCEPT !.ret = ~r.threw]

\* a bridge call with the call of the exported function (inv) and the document
\* (kind) it belongs to
Tagged(sent, inv, kind) ==
  [i \in 1..Len(sent) |->
     [ channel |-> sent[i].channel, param |-> sent[i].param,
       payload |-> sent[i].payload, inv |-> inv, kind |-> kind ]]

Timer(inv, kind, delay) == [inv |-> inv, kind |-> kind, delay |-> delay, due |-> now + delay]

\* androidPrintAll: the Bill at once; an exception of androidPrintBill leaves
\* the function before either setTimeout call
AndroidPrintAll(a, thr) ==
  /\ Len(invs) < MaxCalls
  /\ LET id == Len(invs) + 1
         r == androidPrintBill(a, env, thr)
         new == IF r.threw THEN << >>
                ELSE << Timer(id, "food", 350), Timer(id, "coffee", 700) >>
     IN /\ invs' = Append(invs, [fn |-> "androidPrintAll", a |-> a, at |-> now, threw |-> r.threw])
        /\ bridgeLog' = bridgeLog \o Tagged(r.sent, id, "bill")
        /\ timers' = timers \o new
        /\ scheduled' = scheduled \o [i \in 1..Len(new) |->
                          [inv |-> id, kind |-> new[i].kind, delay |-> new[i].delay, at |-> now]]
  /\ UNCHANGED <<env, now, fired, probes>>
  /\ UNCHANGED buildVars

\* a direct call of one exported per-document function
DirectCall(fn, a, thr) ==
  /\ Len(invs) < MaxCalls
  /\ LET id == Len(invs) + 1
         r == CASE fn = "androidPrintBill" -> androidPrintBill(a, env, thr)
                [] fn = "androidPrintFoodKOT" -> androidPrintFoodKOT(a, env, thr)
                [] OTHER -> androidPrintCoffeeKOT(a, env, thr)
         kind == CASE fn = "androidPrintBill" -> "bill"
                   [] fn = "androidPrintFoodKOT" -> "food"
                   [] OTHER -> "coffee"
     IN /\ invs' = Append(invs, [fn |-> fn, a |-> a, at |-> now, threw |-> r.threw])
        /\ bridgeLog' = bridgeLog \o Tagged(r.sent, id, kind)
  /\ UNCHANGED <<env, now, timers, scheduled, fired, probes>>
  /\ UNCHANGED buildVars

AndroidPrintBill(a, thr) == DirectCall("androidPrintBill", a, thr)

AndroidPrintFoodKOT(a, thr) == DirectCall("androidPrintFoodKOT", a, thr)

AndroidPrintCoffeeKOT(a, thr) == DirectCall("androidPrintCoffeeKOT", a, thr)

\* the timer the event loop runs next: the earliest due, the earliest created
\* among equals
NextTimer ==
  CHOOSE i \in 1..Len(timers) :
    \A j \in 1..Len(timers) :
      timers[j].due > timers[i].due \/ (timers[j].due = timers[i].due /\ j >= i)

Without(q, i) == SubSeq(q, 1, i - 1) \o SubSeq(q, i + 1, Len(q))

\* a timer task runs: the arrow function of the setTimeout call
FireTimer(thr) ==
  /\ timers # << >>
  /\ timers[NextTimer].due <= now
  /\ LET t == timers[NextTimer]
         a == invs[t.inv].a
         r == IF t.kind = "food" THEN androidPrintFoodKOT(a, env, thr)
              ELSE androidPrintCoffeeKOT(a, env, thr)
     IN /\ bridgeLog' = bridgeLog \o Tagged(r.sent, t.inv, t.kind)
        /\ fired' = Append(fired, [inv |-> t.inv, kind |-> t.kind, at |-> now, threw |-> r.threw])
        /\ timers' = Without(timers, NextTimer)
  /\ UNCHANGED <<env, now, invs, scheduled, probes>>
  /\ UNCHANGED buildVars

\* time passes; a timer may run late, but time stops once nothing is pending
Tick ==
  /\ now < MaxTicks * 175 \/ \E i \in 1..Len(timers) : timers[i].due > now
  /\ now' = now + 175
  /\ UNCHANGED <<env, invs, timers, scheduled, fired, bridgeLog, probes>>
  /\ UNCHANGED buildVars

\* isAndroidBridge()
Probe ==
  /\ Len(probes) < MaxProbes
  /\ probes' = Append(probes, isAndroidBridge(env))
  /\ UNCHANGED <<env, now, invs, timers, scheduled, fired, bridgeLog>>
  /\ UNCHANGED buildVars

DispatchIdle ==
  /\ now = 0
  /\ invs = << >>
  /\ timers = << >>
  /\ scheduled = << >>
  /\ fired = << >>
  /\ bridgeLog = << >>
  /\ probes = << >>

BuildIdle ==
  /\ bill = Pending
  /\ food = Pending
  /\ coffee = Pending
  /\ foodSet = << >>
  /\ coffeeSet = << >>

Init ==
  /\ env \in Envs
  /\ DispatchIdle
  /\ input = Args(Str("ORD-123456789"), Str("KTR-042"), Undefined,
                  OrderDetails(Undefined, Totals(Num(0), Num(0), Num(0)), Undefined, Undefined),
                  Undefined)
  /\ BuildIdle

Next ==
  \/ \E a \in DispatchInputs, thr \in BOOLEAN : AndroidPrintAll(a, thr)
  \/ \E a \in DispatchInputs, thr \in BOOLEAN : AndroidPrintBill(a, thr)
  \/ \E a \in DispatchInputs, thr \in BOOLEAN : AndroidPrintFoodKOT(a, thr)
  \/ \E a \in DispatchInputs, thr \in BOOLEAN : AndroidPrintCoffeeKOT(a, thr)
  \/ \E thr \in BOOLEAN : FireTimer(thr)
  \/ Tick
  \/ Probe

Spec == Init /\ [][Next]_vars

\* ------------------------------------------------- the builders on their own
BuildBill ==
  /\ bill = Pending
  /\ bill' = buildBillEscPos(input)
  /\ UNCHANGED <<input, food, coffee, foodSet, coffeeSet>>
  /\ UNCHANGED dispatchVars

BuildFood ==
  /\ food = Pending
  /\ food' = buildFoodKOTEscPos(input)
  /\ foodSet' = foodItems(input.orderDetails)
  /\ UNCHANGED <<input, bill, coffee, coffeeSet>>
  /\ UNCHANGED dispatchVars

BuildCoffee ==
  /\ coffee = Pending
  /\ coffee' = buildCoffeeKOTEscPos(input)
  /\ coffeeSet' = coffeeItems(input.orderDetails)
  /\ UNCHANGED <<input, bill, food, foodSet>>
  /\ UNCHANGED dispatchVars

InitBuild ==
  /\ env = "webview"
  /\ DispatchIdle
  /\ input \in BuildInputs
  /\ BuildIdle

NextBuild == BuildBill \/ BuildFood \/ BuildCoffee

SpecBuild == InitBuild /\ [][NextBuild]_vars

\* ------------------------------------------------------------------ claims
OrderItems(a) == IF a.orderDetails.items.t = "array" THEN a.orderDetails.items.a ELSE << >>

CoffeeStr == Str("6868ca5dc29c8ed4d3c98dd8")

HasFood(a) == \E i \in 1..Len(OrderItems(a)) : OrderItems(a)[i].categoryId # CoffeeStr

HasCoffee(a) == \E i \in 1..Len(OrderItems(a)) : OrderItems(a)[i].categoryId = CoffeeStr

AllCalls == {i \in 1..Len(invs) : invs[i].fn = "androidPrintAll"}

LogOf(i) == SelectSeq(bridgeLog, LAMBDA c : c.inv = i)

ScheduledOf(i) == SelectSeq(scheduled, LAMBDA t : t.inv = i)

FiredOf(i) == SelectSeq(fired, LAMBDA t : t.inv = i)

PendingOf(i) == SelectSeq(timers, LAMBDA t : t.inv = i)

\* C1: in the WebView, every androidPrintAll call sends the Bill to the bridge
\* inside the call and schedules exactly two tasks, the Food KOT with delay 350
\* and the Coffee KOT with delay 700, both at the time of the call; the bridge
\* calls of one invocation come in the order Bill, Food KOT, Coffee KOT.
C1_BillNowTicketsScheduled ==
  env = "webview" =>
    \A i \in AllCalls :
      /\ Len(LogOf(i)) >= 1
      /\ LogOf(i)[1].kind = "bill"
      /\ ScheduledOf(i) = << [inv |-> i, kind |-> "food", delay |-> 350, at |-> invs[i].at],
                             [inv |-> i, kind |-> "coffee", delay |-> 700, at |-> invs[i].at] >>
      /\ \A j, k \in 1..Len(LogOf(i)) :
           j < k => <<LogOf(i)[j].kind, LogOf(i)[k].kind>> \in
                      {<<"bill", "food">>, <<"bill", "coffee">>, <<"food", "coffee">>}

\* C2: in the WebView, after every androidPrintAll call both the Food KOT and the
\* Coffee KOT task are scheduled whether or not the Bill dispatch threw, and a
\* Food KOT task that throws leaves the Coffee KOT task to fire.
C2_FailureKeepsOthersScheduled ==
  env = "webview" =>
    \A i \in AllCalls :
      /\ invs[i].threw =>
           {ScheduledOf(i)[k].kind : k \in 1..Len(ScheduledOf(i))} = {"food", "coffee"}
      /\ \A k \in 1..Len(FiredOf(i)) :
           (FiredOf(i)[k].kind = "food" /\ FiredOf(i)[k].threw) =>
             \/ \E m \in 1..Len(PendingOf(i)) : PendingOf(i)[m].kind = "coffee"
             \/ \E m \in 1..Len(FiredOf(i)) : FiredOf(i)[m].kind = "coffee"

\* C3: where isAndroidBridge() is false no call of the dispatch functions
\* invokes window.AndroidPrint.printBill, and the probe returns a boolean
\* without throwing and without changing anything.
C3_NoBridgeNoCall ==
  /\ [](/\ ~isAndroidBridge(env).threw
        /\ isAndroidBridge(env).value \in BOOLEAN
        /\ \A k \in 1..Len(probes) : ~probes[k].threw /\ probes[k].value \in BOOLEAN
        /\ (~isAndroidBridge(env).value) => bridgeLog = << >>)
  /\ [][probes' # probes =>
          UNCHANGED <<env, now, invs, timers, scheduled, fired, bridgeLog>>]_vars

C3_Witness ==
  /\ env = "browser"
  /\ probes = << [threw |-> FALSE, value |-> FALSE] >>
  /\ Len(invs) = 1
  /\ invs[1].fn = "androidPrintAll"
  /\ invs[1].a.orderDetails.subtotal = Num(10000)

\* C4: in the WebView, a ticket task whose builder returns null makes no bridge
\* call and raises no error, one whose builder returns a document makes exactly
\* one call ("USB", "", the document), so that an androidPrintAll call whose
\* tasks are all done has made 1 + (1 if the order has a non-coffee item)
\* + (1 if it has a coffee item) bridge calls.
C4_CallsPerDispatchAll ==
  env = "webview" =>
    \A i \in AllCalls :
      LET a == invs[i].a
          want == 1 + (IF HasFood(a) THEN 1 ELSE 0) + (IF HasCoffee(a) THEN 1 ELSE 0)
      IN /\ \A k \in 1..Len(LogOf(i)) :
              /\ LogOf(i)[k].channel = "USB"
              /\ LogOf(i)[k].param = ""
              /\ LogOf(i)[k].payload =
                   (CASE LogOf(i)[k].kind = "bill" -> buildBillEscPos(a).doc
                      [] LogOf(i)[k].kind = "food" -> buildFoodKOTEscPos(a).doc
                      [] OTHER -> buildCoffeeKOTEscPos(a).doc)
         /\ \A k \in 1..Len(FiredOf(i)) :
              (FiredOf(i)[k].kind = "food" /\ ~HasFood(a)) => ~FiredOf(i)[k].threw
         /\ Len(PendingOf(i)) = 0 => Len(LogOf(i)) = want

\* C5: the Food KOT builder returns null iff no item has a category other than
\* the coffee id, the Coffee KOT builder returns null iff no item has the coffee
\* id, both return null for a missing or empty item collection, and the Bill
\* builder never returns null.
C5_NullIffNoItems ==
  /\ food # Pending => (food.kind = "null" <=> ~HasFood(input))
  /\ coffee # Pending => (coffee.kind = "null" <=> ~HasCoffee(input))
  /\ (OrderItems(input) = << >> /\ food # Pending /\ coffee # Pending) =>
       (food.kind = "null" /\ coffee.kind = "null")
  /\ bill # Pending => bill.kind # "null"

C5_Witness ==
  /\ Len(OrderItems(input)) = 2
  /\ bill.kind = "doc"
  /\ food.kind = "null"
  /\ coffee.kind = "doc"

\* the items of q at the indices S, in increasing index order
PickInOrder(q, S) ==
  [k \in 1..Cardinality(S) |->
     q[CHOOSE i \in S : Cardinality({j \in S : j <= i}) = k]]

\* C6: every item of the order is in exactly one of the two filtered sets, by
\* exact equality of its category with the coffee id alone, and each filtered
\* set keeps the input order.
C6_Partition ==
  (food # Pending /\ coffee # Pending) =>
    LET its == OrderItems(input)
        C == {i \in 1..Len(its) : its[i].categoryId = CoffeeStr}
        F == (1..Len(its)) \ C
    IN /\ foodSet = PickInOrder(its, F)
       /\ coffeeSet = PickInOrder(its, C)
       /\ Len(foodSet) + Len(coffeeSet) = Len(its)

C6_Witness ==
  /\ food.kind = "doc"
  /\ coffee.kind = "doc"
  /\ OrderItems(input) = << Tea, FilterCoffee >>
  /\ foodSet = << Tea >>
  /\ coffeeSet = << FilterCoffee >>

IsNumber(v) == v.t = "number"

\* C7: for an order whose subtotal, tax, total, item price or item quantity is
\* missing or no number, the Bill builder still returns a document and
\* androidPrintBill still reaches the bridge call.
C7_MalformedNeverThrows ==
  LET od == input.orderDetails
      malformed ==
        \/ ~IsNumber(od.subtotal) \/ ~IsNumber(od.tax) \/ ~IsNumber(od.total)
        \/ \E i \in 1..Len(OrderItems(input)) :
             ~IsNumber(OrderItems(input)[i].price) \/ ~IsNumber(OrderItems(input)[i].quantity)
  IN (bill # Pending /\ malformed) =>
       /\ bill.kind = "doc"
       /\ Len(androidPrintBill(input, "webview", FALSE).sent) = 1

Built == {r \in {bill, food, coffee} : r.kind = "doc"}

Count(d, piece) == Cardinality({i \in 1..Len(d) : d[i] = piece})

\* C8: every document a builder returns begins with the reset ESC '@' and ends
\* with the three-line feed followed by the cut, nothing after it; the reset
\* and the cut each occur once among the pieces the builder emits.
C8_ResetFirstCutLast ==
  \A r \in Built :
    LET d == r.doc
    IN /\ Len(d) >= 3
       /\ d[1] = "<1B>@"
       /\ d[Len(d) - 1] = "\n\n\n"
       /\ d[Len(d)] = "<1D>V<41><00>"
       /\ Count(d, "<1B>@") = 1
       /\ Count(d, "<1D>V<41><00>") = 1

C8_Witness ==
  /\ bill.kind = "doc"
  /\ food.kind = "doc"
  /\ coffee.kind = "doc"

\* the display text the claim gives a customization
ClaimedText(c) ==
  IF c.t = "object" /\ c.name.t # "undefined" THEN String(c.name) ELSE String(c)

ClaimedLines(item, prefix) ==
  LET sc == item.selectedCustomizations
  IN IF sc.t = "array"
     THEN [i \in 1..Len(sc.a) |-> prefix \o ClaimedText(sc.a[i]) \o "\n"]
     ELSE << >>

RECURSIVE ClaimedBillItems(_)
ClaimedBillItems(items) ==
  IF items = << >> THEN << >>
  ELSE << billItemRow(Head(items)) >> \o ClaimedLines(Head(items), "  + ")
       \o ClaimedBillItems(Tail(items))

\* C9: on the Bill every customization is one indented line after its item's
\* row, in input order, showing the record's name field if it has one (even an
\* empty name) and the raw value otherwise; no customizations, no lines.
C9_CustomizationDisplay ==
  bill.kind = "doc" =>
    bill.doc = billHeader(input) \o ClaimedBillItems(OrderItems(input))
               \o billTotals(input.orderDetails) \o billFooter

StartsWith(s, prefix) == Len(s) >= Len(prefix) /\ SubSeq(s, 1, Len(prefix)) = prefix

LinesWith(d, prefix) == {d[i] : i \in {j \in 1..Len(d) : StartsWith(d[j], prefix)}}

Missing(v) == v.t \in {"undefined", "null"}

\* C10 as stated: the Bill's TYPE line shows orderType unless it is null or
\* undefined (so also when it is ""), else orderDetails.billType unless that is
\* null or undefined, else "DINE IN"; the KIOSK line shows orderDetails.kiosk,
\* and "KTR1" when that is missing.
C10_OrderTypeNullish ==
  bill.kind = "doc" =>
    LET od == input.orderDetails
        type == IF ~Missing(input.orderType) THEN input.orderType.s
                ELSE IF ~Missing(od.billType) THEN od.billType.s
                ELSE "DINE IN"
    IN /\ LinesWith(bill.doc, "TYPE    : ") = {"TYPE    : " \o type \o "\n"}
       /\ Missing(od.kiosk) => LinesWith(bill.doc, "KIOSK   : ") = {"KIOSK   : KTR1\n"}

NonEmpty(v) == v.t = "string" /\ v.s # ""

\* C10 amended: the TYPE line shows orderType when it is a non-empty string,
\* else orderDetails.billType when that is a non-empty string, else "DINE IN";
\* the KIOSK line shows orderDetails.kiosk when it is a non-empty string and
\* "KTR1" when it is missing or empty.
C10_OrderTypeTruthy ==
  bill.kind = "doc" =>
    LET od == input.orderDetails
        type == IF NonEmpty(input.orderType) THEN input.orderType.s
                ELSE IF NonEmpty(od.billType) THEN od.billType.s
                ELSE "DINE IN"
        kiosk == IF NonEmpty(od.kiosk) THEN od.kiosk.s ELSE "KTR1"
    IN /\ LinesWith(bill.doc, "TYPE    : ") = {"TYPE    : " \o type \o "\n"}
       /\ LinesWith(bill.doc, "KIOSK   : ") = {"KIOSK   : " \o kiosk \o "\n"}

C10_Witness ==
  /\ bill.kind = "doc"
  /\ input.orderType = Str("")
  /\ input.orderDetails.billType = Str("PARCEL")
  /\ input.orderDetails.kiosk = Str("")

=============================================================================
